---- MODULE Spec2Model ----
(***************************************************************************)
(* Model of the Cypress config/spec migration utilities                    *)
(* (formatMigrationFile, reduceConfig, createConfigString, getSpecs,       *)
(* moveSpecFiles, renameSpecPath).                                         *)
(*                                                                         *)
(* A JavaScript string is a sequence of one-character strings.  The        *)
(* regular expressions of the source are translated operator by operator,  *)
(* with the backtracking order of the JavaScript engine.                   *)
(***************************************************************************)
EXTENDS Integers, Sequences, FiniteSets, TLC

VARIABLES
  fmtPc, file, regexp, fmtResult,          \* one call of formatMigrationFile
  renPc, specPath, renamed, renamedTwice,  \* renameSpecPath applied once, twice
  cfgPc, cfg, config, configString,        \* one call of createConfigString
  \* one call of getSpecs: its arguments, the project's files, the two
  \* directory scans and the result
  gsPc, componentDirPath, e2eDirPath, tree, comp, e2e, before, after,
  settleOrder,   \* history: the testing types in the order their scans settled
  \* one call of moveSpecFiles: its argument, the files on disk, the list
  \* of moves, the index of the next one and the log of the renames tried
  mvPc, mvDirPath, disk, specs, nextSpec, moveLog

fmtVars == <<fmtPc, file, regexp, fmtResult>>
renVars == <<renPc, specPath, renamed, renamedTwice>>
cfgVars == <<cfgPc, cfg, config, configString>>
gsVars ==
  <<gsPc, componentDirPath, e2eDirPath, tree, comp, e2e, before, after, settleOrder>>
mvVars == <<mvPc, mvDirPath, disk, specs, nextSpec, moveLog>>
vars == <<fmtVars, renVars, cfgVars, gsVars, mvVars>>

(***************************************************************************)
(* Bounds of the model.                                                    *)
(***************************************************************************)
\* number of tokens appended after the directory prefix of an input path
MaxTail == 3
\* number of entries of a legacy config object
MaxEntries == 3
\* number of files in the project tree
MaxTree == 3

(***************************************************************************)
(* String literals of the source, as character sequences.                  *)
(***************************************************************************)
StrCypressSlash == <<"c","y","p","r","e","s","s","/">>
StrIntegration == <<"i","n","t","e","g","r","a","t","i","o","n">>
StrComponent == <<"c","o","m","p","o","n","e","n","t">>
StrE2e == <<"e","2","e">>
StrDotCyDot == <<".","c","y",".">>

\* "." of a JavaScript regular expression (no s flag): any character but a
\* line terminator
LineTerminators == {"\n", "\r"}
Dot(c) == c \notin LineTerminators

StartsWithAt(s, i, w) ==
  /\ i >= 1
  /\ i + Len(w) - 1 <= Len(s)
  /\ SubSeq(s, i, i + Len(w) - 1) = w

\* String.prototype.indexOf, 1-based; 0 when w does not occur
IndexOf(s, w) ==
  LET hits == {i \in 1..(Len(s) + 1) : StartsWithAt(s, i, w)}
  IN IF hits = {} THEN 0 ELSE CHOOSE i \in hits : \A j \in hits : i <= j

\* String.prototype.includes, String.prototype.endsWith
Contains(s, w) == IndexOf(s, w) # 0

EndsWith(s, w) == Len(w) <= Len(s) /\ SubSeq(s, Len(s) - Len(w) + 1, Len(s)) = w

\* s with the n characters from position i replaced by w
Splice(s, i, n, w) == SubSeq(s, 1, i - 1) \o w \o SubSeq(s, i + n, Len(s))

\* String.prototype.replace(pattern: string, replacement: string): the first
\* occurrence only
ReplaceFirstString(s, w, by) ==
  LET i == IndexOf(s, w)
  IN IF i = 0 THEN s ELSE Splice(s, i, Len(w), by)

(***************************************************************************)
(* The shared sub-pattern ([._-]?[s|S]pec.|[.])(?=[j|t]s[x]?)              *)
(***************************************************************************)
\* (?=[j|t]s[x]?) at position j: the class [j|t] holds the three characters
\* j, | and t; [x]? matches the empty string, so it never decides
LookaheadAt(s, j) ==
  /\ j >= 1
  /\ j + 1 <= Len(s)
  /\ s[j] \in {"j", "|", "t"}
  /\ s[j + 1] = "s"

\* [s|S]pec. at position i (five characters)
SpecDotAt(s, i) ==
  /\ i >= 1
  /\ i + 4 <= Len(s)
  /\ s[i] \in {"s", "|", "S"}
  /\ s[i + 1] = "p"
  /\ s[i + 2] = "e"
  /\ s[i + 3] = "c"
  /\ Dot(s[i + 4])

\* Length of the match of the ext group at position i, 0 when there is none.
\* Alternatives in backtracking order: the separator taken, the separator
\* skipped, the bare dot.
LegacyExtLenAt(s, i) ==
  IF i < 1 \/ i > Len(s) THEN 0
  ELSE IF s[i] \in {".", "_", "-"} /\ SpecDotAt(s, i + 1) /\ LookaheadAt(s, i + 6)
    THEN 6
  ELSE IF SpecDotAt(s, i) /\ LookaheadAt(s, i + 5) THEN 5
  ELSE IF s[i] = "." /\ LookaheadAt(s, i + 1) THEN 1
  ELSE 0

\* (?<ext>.cy.) at position i
NewExtLenAt(s, i) ==
  IF /\ i >= 1
     /\ i + 3 <= Len(s)
     /\ Dot(s[i])
     /\ s[i + 1] = "c"
     /\ s[i + 2] = "y"
     /\ Dot(s[i + 3])
  THEN 4 ELSE 0

(***************************************************************************)
(* renameSpecPath                                                          *)
(***************************************************************************)
\* the marker replacement without the bare-dot alternative: only a variant
\* of "spec" is replaced
ReplaceSpecMarker_SpecOnly(s) ==
  LET hits == {i \in 1..Len(s) : LegacyExtLenAt(s, i) > 1}
  IN IF hits = {} THEN s
     ELSE LET i == CHOOSE k \in hits : \A j \in hits : k <= j
          IN Splice(s, i, LegacyExtLenAt(s, i), StrDotCyDot)

\* .replace(/([._-]?[s|S]pec.|[.])(?=[j|t]s[x]?)/, '.cy.'): leftmost match
ReplaceSpecMarker(s) ==
  LET hits == {i \in 1..Len(s) : LegacyExtLenAt(s, i) > 0}
  IN IF hits = {} THEN s
     ELSE LET i == CHOOSE k \in hits : \A j \in hits : k <= j
          IN Splice(s, i, LegacyExtLenAt(s, i), StrDotCyDot)

ReplaceIntegration(s) == ReplaceFirstString(s, StrIntegration, StrE2e)

renameSpecPath(s) == ReplaceSpecMarker(ReplaceIntegration(s))

(***************************************************************************)
(* Paths are built from a directory prefix followed by up to MaxTail       *)
(* tokens.                                                                 *)
(***************************************************************************)
RECURSIVE Flatten(_)
Flatten(ss) == IF ss = <<>> THEN <<>> ELSE Head(ss) \o Flatten(Tail(ss))

TupleSeqs(S, n) == UNION {[1..k -> S] : k \in 0..n}

FilePath(prefix, tokens) == prefix \o Flatten(tokens)

(***************************************************************************)
(* regexps and RegExp.prototype.exec                                       *)
(***************************************************************************)
RegexpNames ==
  {"e2e.beforeRegexp", "e2e.afterRegexp",
   "component.beforeRegexp", "component.afterRegexp"}

\* the defaultFolder each entry of regexps passes to its pattern builder
RegexpFolder(r) ==
  CASE r = "e2e.beforeRegexp" -> StrIntegration
    [] r = "e2e.afterRegexp" -> StrE2e
    [] r = "component.beforeRegexp" -> StrComponent
    [] r = "component.afterRegexp" -> StrComponent

RegexpIsLegacy(r) == r \in {"e2e.beforeRegexp", "component.beforeRegexp"}

NoMatch == [matched |-> FALSE, dir |-> <<>>, ext |-> <<>>]

\* the ext group (and, for the legacy pattern, its lookahead) at position j:
\* the length matched, 0 for none
ExtLenAt(legacy, s, j) ==
  IF legacy THEN LegacyExtLenAt(s, j) ELSE NewExtLenAt(s, j)

\* exec of cypress/(?<dir>folder)/.*?(?<ext>...) on s: leftmost start; .*?
\* takes the fewest characters, none of them a line terminator
ExecHighlight(s, folder, legacy) ==
  LET prefix == StrCypressSlash \o folder \o <<"/">>
      ExtStarts(i) ==
        {j \in (i + Len(prefix))..Len(s) :
           /\ ExtLenAt(legacy, s, j) > 0
           /\ \A k \in (i + Len(prefix))..(j - 1) : Dot(s[k])}
      starts == {i \in 1..Len(s) : StartsWithAt(s, i, prefix) /\ ExtStarts(i) # {}}
  IN IF starts = {} THEN NoMatch
     ELSE LET i == CHOOSE k \in starts : \A m \in starts : k <= m
              j == CHOOSE k \in ExtStarts(i) : \A m \in ExtStarts(i) : k <= m
          IN [matched |-> TRUE, dir |-> folder,
              ext |-> SubSeq(s, j, j + ExtLenAt(legacy, s, j) - 1)]

\* exec of the pattern getLegacyHighlightRegexp(defaultFolder) builds
getLegacyHighlightRegexp(s, defaultFolder) == ExecHighlight(s, defaultFolder, TRUE)

\* exec of the pattern getNewHighlightRegexp(defaultFolder) builds
getNewHighlightRegexp(s, defaultFolder) == ExecHighlight(s, defaultFolder, FALSE)

\* regexp.exec(file) for the four patterns of regexps
RegexpExec(r, s) ==
  IF RegexpIsLegacy(r) THEN getLegacyHighlightRegexp(s, RegexpFolder(r))
  ELSE getNewHighlightRegexp(s, RegexpFolder(r))

(***************************************************************************)
(* formatMigrationFile                                                     *)
(***************************************************************************)
\* Array.prototype.join
RECURSIVE Join(_, _)
Join(ss, sep) ==
  IF ss = <<>> THEN <<>>
  ELSE IF Len(ss) = 1 THEN Head(ss)
  ELSE Head(ss) \o sep \o Join(Tail(ss), sep)

\* The characters of the model's alphabet that new RegExp reads as syntax.
\* "(" opens a group that the captured text never closes (the alphabet has
\* no ")"): the pattern "(" \o delimiters \o ")" is then an unterminated group.
RegExpUnclosed == {"("}

RegExpSyntaxError(delimiters) ==
  \E i \in 1..Len(delimiters) : delimiters[i] \in RegExpUnclosed

\* the alternatives of a pattern: the pieces between the "|" characters
RECURSIVE Alternatives(_)
Alternatives(pat) ==
  LET bars == {i \in 1..Len(pat) : pat[i] = "|"}
  IN IF bars = {} THEN <<pat>>
     ELSE LET i == CHOOSE k \in bars : \A j \in bars : k <= j
          IN <<SubSeq(pat, 1, i - 1)>> \o Alternatives(SubSeq(pat, i + 1, Len(pat)))

\* one alternative at position q of s (1-based): "." is any character but a
\* line terminator, every other character of the alphabet is itself
AltMatchesAt(s, alt, q) ==
  /\ q + Len(alt) - 1 <= Len(s)
  /\ \A k \in 1..Len(alt) :
       IF alt[k] = "." THEN Dot(s[q + k - 1]) ELSE s[q + k - 1] = alt[k]

\* Sticky match of (alt1|alt2|...) at q: the position after the match of the
\* first alternative that matches, 0 when none does
MatchEndAt(s, alts, q) ==
  LET ok == {n \in 1..Len(alts) : AltMatchesAt(s, alts[n], q)}
  IN IF ok = {} THEN 0
     ELSE LET n == CHOOSE k \in ok : \A m \in ok : k <= m
          IN q + Len(alts[n])

\* RegExp.prototype[Symbol.split] with one capture group around the whole
\* pattern: p is the end of the last separator, q the position tried
\* (both 1-based positions of the next character)
RECURSIVE SplitLoop(_, _, _, _, _)
SplitLoop(s, alts, p, q, acc) ==
  IF q > Len(s) THEN Append(acc, SubSeq(s, p, Len(s)))
  ELSE LET e == MatchEndAt(s, alts, q)
       IN IF e = 0 \/ e = p THEN SplitLoop(s, alts, p, q + 1, acc)
          ELSE SplitLoop(s, alts, e, e,
                         acc \o <<SubSeq(s, p, q - 1), SubSeq(s, q, e - 1)>>)

StringSplit(s, alts) ==
  IF s = <<>> THEN (IF MatchEndAt(s, alts, 1) # 0 THEN <<>> ELSE <<s>>)
  ELSE SplitLoop(s, alts, 1, 1, <<>>)

SeqIncludes(ss, x) == \E i \in 1..Len(ss) : ss[i] = x

LongerThanOne(x) == Len(x) > 1

\* Object.values(match.groups).filter((x) => x.length > 1)
Higlights(match) == SelectSeq(<<match.dir, match.ext>>, LongerThanOne)

FileParts(split, higlights) ==
  [i \in 1..Len(split) |->
     [text |-> split[i], highlight |-> SeqIncludes(higlights, split[i])]]

\* formatMigrationFile without its guard on a failed match: the whole path
\* comes back as one part
formatMigrationFile_NoGuard(f, r) ==
  LET match == RegexpExec(r, f)
  IN IF ~match.matched
       THEN [kind |-> "returned",
             parts |-> <<[text |-> f, highlight |-> FALSE]>>]
     ELSE LET higlights == Higlights(match)
              delimiters == Join(higlights, <<"|">>)
          IN IF RegExpSyntaxError(delimiters)
               THEN [kind |-> "SyntaxError", parts |-> <<>>]
             ELSE [kind |-> "returned",
                   parts |-> FileParts(StringSplit(f, Alternatives(delimiters)),
                                       higlights)]

formatMigrationFile(f, r) ==
  LET match == RegexpExec(r, f)
  IN IF ~match.matched
       THEN [kind |-> "NonSpecFileError", parts |-> <<>>]
     ELSE LET higlights == Higlights(match)
              delimiters == Join(higlights, <<"|">>)
          IN IF RegExpSyntaxError(delimiters)
               THEN [kind |-> "SyntaxError", parts |-> <<>>]
             ELSE [kind |-> "returned",
                   parts |-> FileParts(StringSplit(f, Alternatives(delimiters)),
                                       higlights)]

\* the text fields of a FilePart sequence, concatenated in order
RECURSIVE ConcatText(_)
ConcatText(parts) ==
  IF parts = <<>> THEN <<>> ELSE Head(parts).text \o ConcatText(Tail(parts))


(***************************************************************************)
(* JavaScript objects: a sequence of entries [key, val] in property order. *)
(* A value is a scalar (named by a string; "false" is the boolean false)   *)
(* or an object of scalar entries.                                         *)
(***************************************************************************)
Scalar(v) == [isObject |-> FALSE, scalar |-> v, entries |-> <<>>]
Object(es) == [isObject |-> TRUE, scalar |-> "", entries |-> es]
Entry(k, v) == [key |-> k, val |-> v]

ObjectKeys(obj) == {obj[i].key : i \in 1..Len(obj)}

\* obj[k], for k a key of obj
Get(obj, k) == obj[CHOOSE i \in 1..Len(obj) : obj[i].key = k].val

\* { ...obj, [k]: v }: an existing key keeps its place, a new one is appended
Put(obj, k, v) ==
  IF k \in ObjectKeys(obj)
    THEN [i \in 1..Len(obj) |-> IF obj[i].key = k THEN Entry(k, v) ELSE obj[i]]
  ELSE Append(obj, Entry(k, v))

\* the spread with its operands swapped, { ...b, ...a }: the earlier value of
\* a key wins
RECURSIVE Spread_EarlierWins(_, _)
Spread_EarlierWins(a, b) ==
  IF b = <<>> THEN a
  ELSE Spread_EarlierWins(
         IF Head(b).key \in ObjectKeys(a) THEN a
         ELSE Append(a, Entry(Head(b).key, Head(b).val)),
         Tail(b))

\* { ...a, ...b }
RECURSIVE Spread(_, _)
Spread(a, b) ==
  IF b = <<>> THEN a ELSE Spread(Put(a, Head(b).key, Head(b).val), Tail(b))

\* JavaScript truthiness of a value
Truthy(v) == v.isObject \/ v.scalar \notin {"false", ""}

(***************************************************************************)
(* reduceConfig                                                            *)
(***************************************************************************)
excludedFields == {"pluginsFile", "$schema", "componentFolder"}

EmptyConfigOptions == [global |-> <<>>, e2e |-> <<>>, component |-> <<>>]

\* one step of the reducer with testFiles written to e2e only
ReduceEntry_TestFilesE2eOnly(acc, key, val) ==
  IF key \in excludedFields THEN acc
  ELSE IF key = "e2e" \/ key = "component"
    THEN [acc EXCEPT ![key] = Spread(acc[key], val.entries)]
  ELSE IF key = "testFiles"
    THEN [acc EXCEPT !.e2e = Put(acc.e2e, "specPattern", val)]
  ELSE IF key = "baseUrl"
    THEN [acc EXCEPT !.e2e = Put(acc.e2e, key, val)]
  ELSE [acc EXCEPT !.global = Put(acc.global, key, val)]

\* one step of the reducer: the callback of Object.entries(cfg).reduce
ReduceEntry(acc, key, val) ==
  IF key \in excludedFields THEN acc
  ELSE IF key = "e2e" \/ key = "component"
    THEN [acc EXCEPT ![key] = Spread(acc[key], val.entries)]
  ELSE IF key = "testFiles"
    THEN [acc EXCEPT !.e2e = Put(acc.e2e, "specPattern", val),
                     !.component = Put(acc.component, "specPattern", val)]
  ELSE IF key = "baseUrl"
    THEN [acc EXCEPT !.e2e = Put(acc.e2e, key, val)]
  ELSE [acc EXCEPT !.global = Put(acc.global, key, val)]

RECURSIVE ReduceFrom(_, _)
ReduceFrom(acc, entries) ==
  IF entries = <<>> THEN acc
  ELSE ReduceFrom(ReduceEntry(acc, Head(entries).key, Head(entries).val),
                  Tail(entries))

reduceConfig(c) == ReduceFrom(EmptyConfigOptions, c)

(***************************************************************************)
(* getPluginRelativePath, createCypressConfigJs                            *)
(***************************************************************************)
\* path.normalize('/cypress/plugins/index.js') on a POSIX platform
DEFAULT_PLUGIN_PATH == "/cypress/plugins/index.js"

getPluginRelativePath(c) ==
  IF "pluginsFile" \in ObjectKeys(c) /\ Truthy(Get(c, "pluginsFile"))
    THEN Get(c, "pluginsFile").scalar
  ELSE DEFAULT_PLUGIN_PATH

\* The text is a sequence of lines, a line a tuple of text fragments.
\* stringify(obj, { indent }) with the outer braces removed and the result
\* trimmed: one "key: value" line per entry
Indent(spaces) == IF spaces = 2 THEN "  " ELSE "    "

ValueSource(v) ==
  IF v.isObject THEN <<"{...}">>
  ELSE IF v.scalar = "false" THEN <<"false">>
  ELSE <<"'", v.scalar, "'">>

formatObjectForConfig(obj, spaces) ==
  [i \in 1..Len(obj) |->
     <<(IF i = 1 THEN "" ELSE Indent(spaces)), obj[i].key, ": ">>
       \o ValueSource(obj[i].val)
       \o <<(IF i = Len(obj) THEN "" ELSE ",")>>]

BlockOpen(testingType) == <<"  ", testingType, ": {">>
SetupNodeEventsOpen == <<"    setupNodeEvents(on, config) {">>
RequireLine(pluginPath) == <<"      return require('", pluginPath, "')">>
SetupNodeEventsClose == <<"    },">>
BlockClose == <<"  },">>

createTestingTypeTemplate(testingType, pluginPath, options) ==
  <<BlockOpen(testingType), SetupNodeEventsOpen, RequireLine(pluginPath),
    SetupNodeEventsClose>>
    \o formatObjectForConfig(options, 4)
    \o <<BlockClose>>

\* a block for every bucket, also an empty one
createCypressConfigJs_AlwaysBlocks(conf, pluginPath) ==
  <<<<"const { defineConfig } = require('cypress')">>,
    <<"module.exports = defineConfig({">>>>
    \o formatObjectForConfig(conf.global, 2)
    \o createTestingTypeTemplate("e2e", pluginPath, conf.e2e)
    \o createTestingTypeTemplate("component", pluginPath, conf.component)
    \o <<<<"})">>>>

createCypressConfigJs(conf, pluginPath) ==
  LET globalString ==
        IF Len(conf.global) > 0 THEN formatObjectForConfig(conf.global, 2) ELSE <<>>
      componentString ==
        IF Len(conf.component) > 0
          THEN createTestingTypeTemplate("component", pluginPath, conf.component)
        ELSE <<>>
      e2eString ==
        IF Len(conf.e2e) > 0
          THEN createTestingTypeTemplate("e2e", pluginPath, conf.e2e)
        ELSE <<>>
  IN <<<<"const { defineConfig } = require('cypress')">>,
       <<"module.exports = defineConfig({">>>>
       \o globalString \o e2eString \o componentString
       \o <<<<"})">>>>


(***************************************************************************)
(* findByTestingType, getSpecs                                             *)
(***************************************************************************)
\* null (and the empty string, which is falsy too)
NullDir == <<>>

Injective(f) == \A i, j \in DOMAIN f : f[i] = f[j] => i = j

\* the orders in which a directory walk may report the files of S
Orderings(S) == {f \in [1..Cardinality(S) -> S] : Injective(f)}

\* the files globby(`${dir}/**/*`, { onlyFiles: true, cwd }) matches
FilesUnder(files, dir) == {f \in files : StartsWithAt(f, 1, dir \o <<"/">>)}

Tag(relatives, testingType) ==
  [i \in 1..Len(relatives) |->
     [relative |-> relatives[i], testingType |-> testingType]]

\* the results of findByTestingType(cwd, dir, testingType), one per order
\* of the walk
findByTestingType(files, dir, testingType) ==
  IF dir = NullDir THEN {<<>>}
  ELSE {Tag(o, testingType) : o \in Orderings(FilesUnder(files, dir))}

RenameAll(found) ==
  [i \in 1..Len(found) |->
     [testingType |-> found[i].testingType,
      relative |-> renameSpecPath(found[i].relative)]]

\* the promise of one findByTestingType call
Pending == [state |-> "pending", value |-> <<>>]
Fulfilled(v) == [state |-> "fulfilled", value |-> v]
Rejected == [state |-> "rejected", value |-> <<>>]

\* the result with the renamed paths in before as well
GetSpecsResult_BeforeRenamed(c, e) ==
  [before |-> RenameAll(c \o e), after |-> RenameAll(c \o e)]

\* the result built from the scans in the order e2e, component
GetSpecsResult_E2eFirst(c, e) ==
  [before |-> e \o c, after |-> RenameAll(e \o c)]

\* the object getSpecs returns once both scans are done
GetSpecsResult(c, e) ==
  [before |-> c \o e, after |-> RenameAll(c \o e)]

(***************************************************************************)
(* getSpecFiles, moveSpecFiles                                             *)
(***************************************************************************)
\* the names fs.readdir(dirPath) lists that are regular files: the paths of
\* the disk directly under dirPath
getSpecFiles(files, dirPath) ==
  {SubSeq(f, Len(dirPath) + 2, Len(f)) :
     f \in {g \in FilesUnder(files, dirPath) :
              ~Contains(SubSeq(g, Len(dirPath) + 2, Len(g)), <<"/">>)}}

\* the array moveSpecFiles maps the listing to
SpecMoves(dirPath, listing) ==
  [i \in 1..Len(listing) |->
     LET specFile == dirPath \o <<"/">> \o listing[i]
     IN [from |-> specFile, to |-> renameSpecPath(specFile)]]
(***************************************************************************)
(* The paths formatMigrationFile is called with                            *)
(***************************************************************************)
FormatPrefixes ==
  {StrCypressSlash \o StrIntegration \o <<"/">>,
   StrCypressSlash \o StrComponent \o <<"/">>,
   StrCypressSlash \o StrE2e \o <<"/">>}

FormatTokens ==
  {<<"a">>, <<".">>, <<"_","s","p","e","c",".">>, <<"|","p","e","c",".">>,
   <<"s","p","e","c","(">>, <<".","c","y",".">>, <<"j","s">>, <<"t","s">>,
   StrIntegration}

FormatFiles ==
  {FilePath(pre, ts) : pre \in FormatPrefixes, ts \in TupleSeqs(FormatTokens, MaxTail)}

NoResult == [kind |-> "none", parts |-> <<>>]

(***************************************************************************)
(* The paths renameSpecPath is called with                                 *)
(***************************************************************************)
RenamePrefixes ==
  {StrCypressSlash \o StrIntegration \o <<"/">>,
   StrCypressSlash \o StrE2e \o <<"/">>,
   StrCypressSlash \o <<"m","y","-">> \o StrIntegration \o <<"/">>}

RenameTokens ==
  {<<"a">>, <<".">>, <<".","s","p","e","c",".">>, <<"_","s","p","e","c",".">>,
   <<"j","s">>, <<"t","s">>, <<"j","s","o","n">>, <<"x">>, StrIntegration}

RenamePaths ==
  {FilePath(pre, ts) : pre \in RenamePrefixes, ts \in TupleSeqs(RenameTokens, MaxTail)}

(***************************************************************************)
(* The legacy config objects createConfigString is called with             *)
(***************************************************************************)
NestedObjects ==
  {<<>>,
   <<Entry("specPattern", Scalar("b"))>>,
   <<Entry("video", Scalar("b"))>>,
   <<Entry("baseUrl", Scalar("b"))>>,
   <<Entry("supportFile", Scalar("false"))>>,
   <<Entry("supportFile", Scalar("false")), Entry("video", Scalar("b"))>>}

ConfigValuesOf(k) ==
  CASE k \in {"e2e", "component"} -> {Object(o) : o \in NestedObjects}
    [] k = "pluginsFile" -> {Scalar("plugins.js"), Scalar("false")}
    [] k \in {"$schema", "componentFolder", "supportFile"} -> {Scalar("a")}
    [] k = "baseUrl" -> {Scalar("http://x"), Scalar("a")}
    [] OTHER -> {Scalar("a"), Scalar("**/*.ts")}

ConfigKeys ==
  {"pluginsFile", "$schema", "componentFolder", "e2e", "component",
   "testFiles", "baseUrl", "video", "supportFile"}

ConfigEntries == UNION {{Entry(k, v) : v \in ConfigValuesOf(k)} : k \in ConfigKeys}

\* the legacy config objects of n entries: no key twice
ConfigsOfLen(n) ==
  {c \in [1..n -> ConfigEntries] : \A i, j \in 1..n : c[i].key = c[j].key => i = j}

(***************************************************************************)
(* The files of the project, for getSpecs and moveSpecFiles                *)
(***************************************************************************)
DirIntegration == StrCypressSlash \o StrIntegration
DirComponent == StrCypressSlash \o StrComponent
DirE2e == StrCypressSlash \o StrE2e

NameSpecJs == <<"a",".","s","p","e","c",".","j","s">>
NameUnderscoreSpecJs == <<"a","_","s","p","e","c",".","j","s">>
NameCyJs == <<"a",".","c","y",".","j","s">>
NameTs == <<"b",".","t","s">>

ProjectFiles ==
  {DirIntegration \o <<"/">> \o NameSpecJs,
   DirIntegration \o <<"/">> \o NameTs,
   DirIntegration \o <<"/","s","u","b","/">> \o NameSpecJs,
   DirComponent \o <<"/">> \o NameSpecJs,
   DirComponent \o <<"/">> \o NameTs}

ProjectTrees == {t \in SUBSET ProjectFiles : Cardinality(t) <= MaxTree}

DiskFiles ==
  {DirIntegration \o <<"/">> \o NameSpecJs,
   DirIntegration \o <<"/">> \o NameUnderscoreSpecJs,
   DirIntegration \o <<"/">> \o NameCyJs,
   DirIntegration \o <<"/">> \o NameTs,
   DirIntegration \o <<"/","s","u","b","/">> \o NameSpecJs,
   DirE2e \o <<"/">> \o NameCyJs}

Disks == {t \in SUBSET DiskFiles : Cardinality(t) <= MaxTree}

(***************************************************************************)
(* The state of an operation that is not running                           *)
(***************************************************************************)
FmtIdle ==
  /\ fmtPc = "off"
  /\ file = <<>>
  /\ regexp = "e2e.beforeRegexp"
  /\ fmtResult = NoResult

RenIdle ==
  /\ renPc = "off"
  /\ specPath = <<>>
  /\ renamed = <<>>
  /\ renamedTwice = <<>>

CfgIdle ==
  /\ cfgPc = "off"
  /\ cfg = <<>>
  /\ config = EmptyConfigOptions
  /\ configString = <<>>

GsIdle ==
  /\ gsPc = "off"
  /\ componentDirPath = NullDir
  /\ e2eDirPath = NullDir
  /\ tree = {}
  /\ comp = Pending
  /\ e2e = Pending
  /\ before = <<>>
  /\ after = <<>>
  /\ settleOrder = <<>>

MvIdle ==
  /\ mvPc = "off"
  /\ mvDirPath = <<>>
  /\ disk = {}
  /\ specs = <<>>
  /\ nextSpec = 1
  /\ moveLog = <<>>

(***************************************************************************)
(* One call of formatMigrationFile(file, new RegExp(regexps...))           *)
(***************************************************************************)
InitFormat ==
  /\ fmtPc = "call"
  /\ file \in FormatFiles
  /\ regexp \in RegexpNames
  /\ fmtResult = NoResult
  /\ RenIdle /\ CfgIdle /\ GsIdle /\ MvIdle

FormatMigrationFile ==
  /\ fmtPc = "call"
  /\ fmtResult' = formatMigrationFile(file, regexp)
  /\ fmtPc' = "done"
  /\ UNCHANGED <<file, regexp, renVars, cfgVars, gsVars, mvVars>>

NextFormat == FormatMigrationFile

SpecFormat == InitFormat /\ [][NextFormat]_vars

(***************************************************************************)
(* renameSpecPath applied to a path, and again to its result               *)
(***************************************************************************)
InitRename ==
  /\ renPc = "once"
  /\ specPath \in RenamePaths
  /\ renamed = <<>>
  /\ renamedTwice = <<>>
  /\ FmtIdle /\ CfgIdle /\ GsIdle /\ MvIdle

RenameOnce ==
  /\ renPc = "once"
  /\ renamed' = renameSpecPath(specPath)
  /\ renPc' = "twice"
  /\ UNCHANGED <<specPath, renamedTwice, fmtVars, cfgVars, gsVars, mvVars>>

RenameTwice ==
  /\ renPc = "twice"
  /\ renamedTwice' = renameSpecPath(renamed)
  /\ renPc' = "done"
  /\ UNCHANGED <<specPath, renamed, fmtVars, cfgVars, gsVars, mvVars>>

NextRename == RenameOnce \/ RenameTwice

SpecRename == InitRename /\ [][NextRename]_vars

(***************************************************************************)
(* One call of createConfigString(cfg)                                     *)
(***************************************************************************)
InitConfig ==
  /\ cfgPc = "call"
  /\ \E n \in 0..MaxEntries : cfg \in ConfigsOfLen(n)
  /\ config = EmptyConfigOptions
  /\ configString = <<>>
  /\ FmtIdle /\ RenIdle /\ GsIdle /\ MvIdle

\* createConfigString: reduceConfig, getPluginRelativePath, createCypressConfigJs
CreateConfigString ==
  /\ cfgPc = "call"
  /\ config' = reduceConfig(cfg)
  /\ configString' = createCypressConfigJs(reduceConfig(cfg), getPluginRelativePath(cfg))
  /\ cfgPc' = "done"
  /\ UNCHANGED <<cfg, fmtVars, renVars, gsVars, mvVars>>

NextConfig == CreateConfigString

SpecConfig == InitConfig /\ [][NextConfig]_vars

(***************************************************************************)
(* One call of getSpecs(projectRoot, componentDirPath, e2eDirPath)         *)
(***************************************************************************)
InitGetSpecs ==
  /\ gsPc = "scanning"
  /\ componentDirPath \in {NullDir, DirComponent}
  /\ e2eDirPath \in {NullDir, DirIntegration, DirComponent}
  /\ tree \in ProjectTrees
  /\ comp = Pending
  /\ e2e = Pending
  /\ before = <<>>
  /\ after = <<>>
  /\ settleOrder = <<>>
  /\ FmtIdle /\ RenIdle /\ CfgIdle /\ MvIdle

\* findByTestingType(projectRoot, componentDirPath, 'component') fulfils
FindComponentFulfils ==
  /\ gsPc = "scanning"
  /\ comp.state = "pending"
  /\ \E found \in findByTestingType(tree, componentDirPath, "component") :
       comp' = Fulfilled(found)
  /\ settleOrder' = Append(settleOrder, "component")
  /\ UNCHANGED <<gsPc, componentDirPath, e2eDirPath, tree, e2e, before, after>>
  /\ UNCHANGED <<fmtVars, renVars, cfgVars, mvVars>>

\* findByTestingType(projectRoot, e2eDirPath, 'e2e') fulfils
FindE2eFulfils ==
  /\ gsPc = "scanning"
  /\ e2e.state = "pending"
  /\ \E found \in findByTestingType(tree, e2eDirPath, "e2e") :
       e2e' = Fulfilled(found)
  /\ settleOrder' = Append(settleOrder, "e2e")
  /\ UNCHANGED <<gsPc, componentDirPath, e2eDirPath, tree, comp, before, after>>
  /\ UNCHANGED <<fmtVars, renVars, cfgVars, mvVars>>

\* globby rejects for the component directory (a null directory is never
\* globbed)
FindComponentRejects ==
  /\ gsPc = "scanning"
  /\ comp.state = "pending"
  /\ componentDirPath # NullDir
  /\ comp' = Rejected
  /\ settleOrder' = Append(settleOrder, "component")
  /\ UNCHANGED <<gsPc, componentDirPath, e2eDirPath, tree, e2e, before, after>>
  /\ UNCHANGED <<fmtVars, renVars, cfgVars, mvVars>>

FindE2eRejects ==
  /\ gsPc = "scanning"
  /\ e2e.state = "pending"
  /\ e2eDirPath # NullDir
  /\ e2e' = Rejected
  /\ settleOrder' = Append(settleOrder, "e2e")
  /\ UNCHANGED <<gsPc, componentDirPath, e2eDirPath, tree, comp, before, after>>
  /\ UNCHANGED <<fmtVars, renVars, cfgVars, mvVars>>

\* Promise.all fulfils once both scans have; getSpecs returns its object
GetSpecsReturns ==
  /\ gsPc = "scanning"
  /\ comp.state = "fulfilled"
  /\ e2e.state = "fulfilled"
  /\ before' = GetSpecsResult(comp.value, e2e.value).before
  /\ after' = GetSpecsResult(comp.value, e2e.value).after
  /\ gsPc' = "resolved"
  /\ UNCHANGED <<componentDirPath, e2eDirPath, tree, comp, e2e, settleOrder>>
  /\ UNCHANGED <<fmtVars, renVars, cfgVars, mvVars>>

\* Promise.all rejects as soon as one scan has
GetSpecsRejects ==
  /\ gsPc = "scanning"
  /\ (comp.state = "rejected" \/ e2e.state = "rejected")
  /\ gsPc' = "rejected"
  /\ UNCHANGED <<componentDirPath, e2eDirPath, tree, comp, e2e, before, after,
                 settleOrder>>
  /\ UNCHANGED <<fmtVars, renVars, cfgVars, mvVars>>

NextGetSpecs ==
  \/ FindComponentFulfils
  \/ FindE2eFulfils
  \/ FindComponentRejects
  \/ FindE2eRejects
  \/ GetSpecsReturns
  \/ GetSpecsRejects

SpecGetSpecs == InitGetSpecs /\ [][NextGetSpecs]_vars

(***************************************************************************)
(* One call of moveSpecFiles(e2eDirPath)                                   *)
(***************************************************************************)
InitMove ==
  /\ mvPc = "list"
  /\ mvDirPath \in {DirIntegration, DirE2e}
  /\ disk \in Disks
  /\ specs = <<>>
  /\ nextSpec = 1
  /\ moveLog = <<>>
  /\ FmtIdle /\ RenIdle /\ CfgIdle /\ GsIdle

\* await getSpecFiles(e2eDirPath), mapped to the from/to pairs; readdir
\* lists the directory in an order of its own
ListSpecFiles ==
  /\ mvPc = "list"
  /\ \E listing \in Orderings(getSpecFiles(disk, mvDirPath)) :
       specs' = SpecMoves(mvDirPath, listing)
  /\ mvPc' = "move"
  /\ UNCHANGED <<mvDirPath, disk, nextSpec, moveLog>>
  /\ UNCHANGED <<fmtVars, renVars, cfgVars, gsVars>>

\* fs.readdir or fs.statSync throws: moveSpecFiles rejects before any move
GetSpecFilesThrows ==
  /\ mvPc = "list"
  /\ mvPc' = "rejected"
  /\ UNCHANGED <<mvDirPath, disk, specs, nextSpec, moveLog>>
  /\ UNCHANGED <<fmtVars, renVars, cfgVars, gsVars>>

\* fs.moveSync(spec.from, spec.to) renames the file.  Without the overwrite
\* option an existing destination makes it throw; with source and
\* destination the same path it returns or throws, by the library's version.
MoveSyncRenames ==
  /\ mvPc = "move"
  /\ nextSpec <= Len(specs)
  /\ specs[nextSpec].from \in disk
  /\ (specs[nextSpec].to \notin disk \/ specs[nextSpec].to = specs[nextSpec].from)
  /\ disk' = (disk \ {specs[nextSpec].from}) \cup {specs[nextSpec].to}
  /\ moveLog' = Append(moveLog, [index |-> nextSpec, ok |-> TRUE])
  /\ nextSpec' = nextSpec + 1
  /\ UNCHANGED <<mvPc, mvDirPath, specs>>
  /\ UNCHANGED <<fmtVars, renVars, cfgVars, gsVars>>

\* the callback of forEach goes on to the next file after a failed rename
MoveSyncThrows_Swallowed ==
  /\ mvPc = "move"
  /\ nextSpec <= Len(specs)
  /\ moveLog' = Append(moveLog, [index |-> nextSpec, ok |-> FALSE])
  /\ nextSpec' = nextSpec + 1
  /\ UNCHANGED <<mvPc, mvDirPath, disk, specs>>
  /\ UNCHANGED <<fmtVars, renVars, cfgVars, gsVars>>

\* fs.moveSync throws (the destination exists, or any I/O error): the
\* exception leaves forEach and rejects the promise of moveSpecFiles
MoveSyncThrows ==
  /\ mvPc = "move"
  /\ nextSpec <= Len(specs)
  /\ moveLog' = Append(moveLog, [index |-> nextSpec, ok |-> FALSE])
  /\ mvPc' = "rejected"
  /\ UNCHANGED <<mvDirPath, disk, specs, nextSpec>>
  /\ UNCHANGED <<fmtVars, renVars, cfgVars, gsVars>>

\* forEach has run through the list
MoveSpecFilesReturns ==
  /\ mvPc = "move"
  /\ nextSpec > Len(specs)
  /\ mvPc' = "resolved"
  /\ UNCHANGED <<mvDirPath, disk, specs, nextSpec, moveLog>>
  /\ UNCHANGED <<fmtVars, renVars, cfgVars, gsVars>>

NextMove ==
  \/ ListSpecFiles
  \/ GetSpecFilesThrows
  \/ MoveSyncRenames
  \/ MoveSyncThrows
  \/ MoveSpecFilesReturns

SpecMove == InitMove /\ [][NextMove]_vars

(***************************************************************************)
(* Every operation                                                         *)
(***************************************************************************)
Init == InitFormat \/ InitRename \/ InitConfig \/ InitGetSpecs \/ InitMove

Next == NextFormat \/ NextRename \/ NextConfig \/ NextGetSpecs \/ NextMove

Spec == Init /\ [][Next]_vars

(***************************************************************************)
(* Properties of formatMigrationFile                                       *)
(***************************************************************************)
\* C1: for every path that matches the legacy pattern of regexps.e2e or
\* regexps.component, formatMigrationFile returns a FilePart sequence whose
\* text fields, concatenated in order, are the input path.
C1_ConcatReproducesInput ==
  (fmtPc = "done" /\ RegexpIsLegacy(regexp) /\ RegexpExec(regexp, file).matched)
    => (fmtResult.kind = "returned" /\ ConcatText(fmtResult.parts) = file)

\* an already-migrated path of the testing type of legacy pattern r:
\* cypress/e2e/<name>.cy.js, cypress/component/<name>.cy.js
StrDotCyDotJs == StrDotCyDot \o <<"j","s">>

MigratedPathOf(r, f) ==
  /\ RegexpIsLegacy(r)
  /\ EndsWith(f, StrDotCyDotJs)
  /\ StartsWithAt(f, 1, StrCypressSlash
                         \o (IF r = "e2e.beforeRegexp" THEN StrE2e ELSE StrComponent)
                         \o <<"/">>)

\* C2 as stated: a path that does not match the pattern, and in particular an
\* already-migrated path against the legacy pattern of its testing type,
\* raises NonSpecFileError.
C2_Original ==
  (fmtPc = "done" /\ (~RegexpExec(regexp, file).matched \/ MigratedPathOf(regexp, file)))
    => fmtResult.kind = "NonSpecFileError"

\* C2 as amended: NonSpecFileError is raised exactly when the pattern finds no
\* match; a path without "cypress/integration/" (so every migrated e2e path
\* cypress/e2e/...) never matches the legacy e2e pattern and raises, while a
\* migrated component path cypress/component/<name>.cy.js matches the legacy
\* component pattern (its ext group is the dot before js) and does not raise.
C2_NonSpecFileError ==
  fmtPc = "done" =>
    /\ (fmtResult.kind = "NonSpecFileError") = ~RegexpExec(regexp, file).matched
    /\ (regexp = "e2e.beforeRegexp"
          /\ ~Contains(file, StrCypressSlash \o StrIntegration \o <<"/">>))
        => fmtResult.kind = "NonSpecFileError"
    /\ (regexp = "component.beforeRegexp" /\ MigratedPathOf(regexp, file))
        => fmtResult.kind # "NonSpecFileError"

C2_Witness ==
  /\ fmtPc = "done"
  /\ regexp = "e2e.beforeRegexp"
  /\ file = StrCypressSlash \o StrE2e \o <<"/", "a">> \o StrDotCyDotJs
  /\ fmtResult.kind = "NonSpecFileError"

(***************************************************************************)
(* Properties of renameSpecPath                                            *)
(***************************************************************************)
\* w as a whole path segment of s at position i
SegmentAt(s, i, w) ==
  /\ StartsWithAt(s, i, w)
  /\ (i = 1 \/ s[i - 1] = "/")
  /\ (i + Len(w) > Len(s) \/ s[i + Len(w)] = "/")

\* a script-file extension (js, jsx, ts, tsx) from position j to the end
ScriptExtensionAt(s, j) ==
  /\ j >= 1
  /\ j <= Len(s)
  /\ SubSeq(s, j, Len(s)) \in {<<"j","s">>, <<"j","s","x">>, <<"t","s">>, <<"t","s","x">>}

\* the spec-suffix marker of the rule of section 4.4 at position i: an
\* optional separator and "spec." or "Spec.", or a bare dot, immediately
\* before a script-file extension
RuleMarkerLenAt(s, i) ==
  LET SpecWord(k) ==
        /\ k + 4 <= Len(s)
        /\ s[k] \in {"s", "S"}
        /\ SubSeq(s, k + 1, k + 4) = <<"p","e","c",".">>
  IN IF i < 1 \/ i > Len(s) THEN 0
     ELSE IF s[i] \in {".", "_", "-"} /\ SpecWord(i + 1) /\ ScriptExtensionAt(s, i + 6)
       THEN 6
     ELSE IF SpecWord(i) /\ ScriptExtensionAt(s, i + 5) THEN 5
     ELSE IF s[i] = "." /\ ScriptExtensionAt(s, i + 1) THEN 1
     ELSE 0

RuleRename(s) ==
  LET segs == {i \in 1..Len(s) : SegmentAt(s, i, StrIntegration)}
      s1 == IF segs = {} THEN s
            ELSE Splice(s, CHOOSE i \in segs : \A j \in segs : i <= j,
                        Len(StrIntegration), StrE2e)
      hits == {i \in 1..Len(s1) : RuleMarkerLenAt(s1, i) > 0}
  IN IF hits = {} THEN s1
     ELSE LET i == CHOOSE k \in hits : \A j \in hits : k <= j
          IN Splice(s1, i, RuleMarkerLenAt(s1, i), StrDotCyDot)

\* C9: renameSpecPath(p) is p with the first path segment "integration"
\* replaced by "e2e" and then the first spec-suffix marker immediately before
\* a script-file extension (js, jsx, ts, tsx) replaced by ".cy."; nothing
\* else changes.
C9_RenameFollowsRule ==
  renPc # "once" => renamed = RuleRename(specPath)

\* C10 as stated: renameSpecPath is idempotent.
C10_Original ==
  renPc = "done" => renamedTwice = renamed

HasMarker(s) ==
  \E i \in 1..Len(s) :
    /\ \/ s[i] = "."
       \/ SpecDotAt(s, i)
    /\ LookaheadAt(s, i + (IF SpecDotAt(s, i) THEN 5 ELSE 1))

\* C10 as amended: a second application of renameSpecPath leaves the path
\* unchanged exactly when the once-renamed path holds no "integration" and no
\* marker before js/ts any more; a migrated path ending in .cy.js or .cy.ts is
\* not a fixed point (cypress/e2e/foo.cy.js becomes cypress/e2e/foo.cy.cy.js).
C10_FixedPoints ==
  renPc = "done" =>
    /\ (renamedTwice = renamed)
         = (~Contains(renamed, StrIntegration) /\ ~HasMarker(renamed))
    /\ (EndsWith(renamed, StrDotCyDotJs) \/ EndsWith(renamed, StrDotCyDot \o <<"t","s">>))
         => renamedTwice # renamed

C10_Witness ==
  /\ renPc = "done"
  /\ specPath = StrCypressSlash \o StrIntegration \o <<"/", "a", ".","s","p","e","c",".", "j","s">>
  /\ renamed = StrCypressSlash \o StrE2e \o <<"/", "a">> \o StrDotCyDotJs
  /\ renamedTwice = StrCypressSlash \o StrE2e \o <<"/", "a", ".","c","y">> \o StrDotCyDotJs

(***************************************************************************)
(* Properties of reduceConfig and createConfigString                       *)
(***************************************************************************)
Disjoint(A, B) == A \cap B = {}

TopKeys == ObjectKeys(cfg)

\* the keys of the object under top-level key k of cfg, none without it
NestedKeysOf(k) == IF k \in TopKeys THEN ObjectKeys(Get(cfg, k).entries) ELSE {}

RoutedKeys == excludedFields \cup {"e2e", "component", "testFiles", "baseUrl"}

\* C3 as stated: no option name is in more than one bucket.
C3_Original ==
  cfgPc = "done" =>
    /\ Disjoint(ObjectKeys(config.global), ObjectKeys(config.e2e))
    /\ Disjoint(ObjectKeys(config.global), ObjectKeys(config.component))
    /\ Disjoint(ObjectKeys(config.e2e), ObjectKeys(config.component))

\* C3 as amended: the key sets of the buckets are pairwise disjoint exactly
\* when the input has no testFiles key and no option name occurs in two of:
\* the top-level keys that go to global, the e2e object (with baseUrl when
\* there is a top-level baseUrl), the component object.  With testFiles,
\* specPattern is a key of both e2e and component.
C3_DisjointBuckets ==
  cfgPc = "done" =>
    /\ ( /\ Disjoint(ObjectKeys(config.global), ObjectKeys(config.e2e))
         /\ Disjoint(ObjectKeys(config.global), ObjectKeys(config.component))
         /\ Disjoint(ObjectKeys(config.e2e), ObjectKeys(config.component)) )
       = ( /\ "testFiles" \notin TopKeys
           /\ Disjoint(TopKeys \ RoutedKeys, NestedKeysOf("e2e") \cup NestedKeysOf("component"))
           /\ Disjoint(NestedKeysOf("e2e"), NestedKeysOf("component"))
           /\ ("baseUrl" \in TopKeys => "baseUrl" \notin NestedKeysOf("component")) )
    /\ "testFiles" \in TopKeys =>
         /\ "specPattern" \in ObjectKeys(config.e2e)
         /\ "specPattern" \in ObjectKeys(config.component)

C3_Witness ==
  /\ cfgPc = "done"
  /\ "testFiles" \in TopKeys
  /\ "specPattern" \in ObjectKeys(config.e2e) \cap ObjectKeys(config.component)

\* the writes the rule table makes to bucket b, each with the index i of the
\* entry of cfg it comes from (and j, its place in a nested object)
WritesTo(b) ==
  UNION {{[i |-> i, j |-> j, field |-> cfg[i].val.entries[j].key,
           val |-> cfg[i].val.entries[j].val] :
            j \in 1..Len(cfg[i].val.entries)} :
         i \in {n \in 1..Len(cfg) : cfg[n].key = b}}
  \cup {[i |-> i, j |-> 0, field |-> "specPattern", val |-> cfg[i].val] :
          i \in {n \in 1..Len(cfg) : cfg[n].key = "testFiles"}}
  \cup {[i |-> i, j |-> 0, field |-> "baseUrl", val |-> cfg[i].val] :
          i \in {n \in 1..Len(cfg) : cfg[n].key = "baseUrl" /\ b = "e2e"}}

Later(u, w) == u.i > w.i \/ (u.i = w.i /\ u.j > w.j)

\* bucket holds, for every field written, the value of the last write
HoldsLastWrites(bucket, writes) ==
  /\ ObjectKeys(bucket) = {w.field : w \in writes}
  /\ Len(bucket) = Cardinality(ObjectKeys(bucket))
  /\ \A w \in writes :
       (\A u \in writes : u.field = w.field => ~Later(u, w))
         => Get(bucket, w.field) = w.val

HasBlock(text, testingType) ==
  \E i \in 1..Len(text) : text[i] = BlockOpen(testingType)

\* every block of text opens with a setupNodeEvents hook requiring path
BlocksRequire(text, path) ==
  \A i \in 1..Len(text) :
    (\E t \in {"e2e", "component"} : text[i] = BlockOpen(t))
      => /\ i + 2 <= Len(text)
         /\ text[i + 1] = SetupNodeEventsOpen
         /\ text[i + 2] = RequireLine(path)

BlocksIffKeys ==
  /\ HasBlock(configString, "e2e") = (Len(config.e2e) > 0)
  /\ HasBlock(configString, "component") = (Len(config.component) > 0)

\* C5 as stated: a block is in the text exactly for a bucket with a key, and
\* every block requires cfg.pluginsFile when cfg has it, the default path
\* otherwise.
C5_Original ==
  cfgPc = "done" =>
    /\ BlocksIffKeys
    /\ BlocksRequire(configString,
                     IF "pluginsFile" \in TopKeys THEN Get(cfg, "pluginsFile").scalar
                     ELSE "/cypress/plugins/index.js")

\* C5 as amended: a block is in the text exactly for a bucket with a key, and
\* every block requires cfg.pluginsFile when cfg has it with a truthy value,
\* the default path /cypress/plugins/index.js otherwise (so also for
\* pluginsFile: false).
C5_BlocksAndPluginPath ==
  cfgPc = "done" =>
    /\ BlocksIffKeys
    /\ BlocksRequire(configString,
                     IF "pluginsFile" \in TopKeys
                          /\ Get(cfg, "pluginsFile").scalar \notin {"false", ""}
                       THEN Get(cfg, "pluginsFile").scalar
                     ELSE "/cypress/plugins/index.js")

C5_Witness ==
  /\ cfgPc = "done"
  /\ "pluginsFile" \in TopKeys
  /\ Get(cfg, "pluginsFile") = Scalar("plugins.js")
  /\ Len(config.e2e) > 0
  /\ Len(config.component) = 0
  /\ HasBlock(configString, "e2e")
  /\ ~HasBlock(configString, "component")
  /\ \E i \in 1..Len(configString) : configString[i] = RequireLine("plugins.js")

(***************************************************************************)
(* Properties of getSpecs                                                  *)
(***************************************************************************)
ComponentBeforeE2e(list) ==
  \A i, j \in 1..Len(list) :
    (list[i].testingType = "e2e" /\ list[j].testingType = "component") => j < i

RelativesOf(list, testingType) ==
  {list[i].relative : i \in {n \in 1..Len(list) : list[n].testingType = testingType}}

\* the files a scan of dir has to report
Discovered(dir) == IF dir = NullDir THEN {} ELSE FilesUnder(tree, dir)

\* C7: in the result of getSpecs every component entry precedes every e2e
\* entry, in before and in after, whichever scan settled first; a null
\* directory contributes no entry and the entries of the other type are all
\* returned.
C7_ComponentFirst ==
  gsPc = "resolved" =>
    /\ ComponentBeforeE2e(before)
    /\ ComponentBeforeE2e(after)
    /\ RelativesOf(before, "component") = Discovered(componentDirPath)
    /\ RelativesOf(before, "e2e") = Discovered(e2eDirPath)
    /\ Len(before) = Cardinality(Discovered(componentDirPath))
                       + Cardinality(Discovered(e2eDirPath))

\* the e2e scan settled first, and the component directory is given
C7_Witness ==
  /\ gsPc = "resolved"
  /\ settleOrder = <<"e2e", "component">>
  /\ RelativesOf(before, "component") # {}
  /\ RelativesOf(before, "e2e") # {}
  /\ before[1].testingType = "component"

\* a null component directory, the e2e entries returned
C7_WitnessNull ==
  /\ gsPc = "resolved"
  /\ componentDirPath = NullDir
  /\ RelativesOf(before, "e2e") # {}

\* C8: before and after have the same length; at every index the testing
\* types agree and after holds the renamed path of before; before holds the
\* discovered paths as the scans reported them.
C8_BeforeAfter ==
  gsPc = "resolved" =>
    /\ Len(before) = Len(after)
    /\ \A i \in 1..Len(before) :
         /\ after[i].testingType = before[i].testingType
         /\ after[i].relative = renameSpecPath(before[i].relative)
         /\ before[i].relative \in tree
    /\ before = comp.value \o e2e.value

C8_Witness ==
  /\ gsPc = "resolved"
  /\ Len(before) >= 2
  /\ \E i \in 1..Len(before) :
       /\ before[i].relative = DirIntegration \o <<"/">> \o NameSpecJs
       /\ after[i].relative = DirE2e \o <<"/">> \o NameCyJs

(***************************************************************************)
(* Properties of moveSpecFiles                                             *)
(***************************************************************************)
Renamed == Cardinality({i \in 1..Len(moveLog) : moveLog[i].ok})

\* C6: the renames are tried one at a time in listing order; a failed rename
\* is the last one tried and rejects the call; the files before it are at
\* their migrated paths, the failed one and those after it at their original
\* paths.
C6_PrefixMoved ==
  /\ \A i \in 1..Len(moveLog) :
       /\ moveLog[i].index = i
       /\ i < Len(moveLog) => moveLog[i].ok
  /\ Len(moveLog) <= Len(specs)
  /\ (Len(moveLog) > 0 /\ ~moveLog[Len(moveLog)].ok) => mvPc = "rejected"
  /\ mvPc = "resolved" => Renamed = Len(specs)
  /\ \A j \in 1..Len(specs) :
       IF j <= Renamed THEN specs[j].to \in disk ELSE specs[j].from \in disk

\* the second of three renames failed
C6_Witness ==
  /\ mvPc = "rejected"
  /\ Len(specs) = 3
  /\ Len(moveLog) = 2
  /\ specs[1].to \in disk
  /\ specs[1].from \notin disk
  /\ specs[2].from \in disk
  /\ specs[3].from \in disk

====
